---- MODULE Spec2Model ----
(***************************************************************************)
(* Model of micasa's collapsed-column layout (computeCollapsedStacks and   *)
(* its helpers) and of the per-entity TabHandler dispatch with its undo    *)
(* entries.                                                                *)
(*                                                                         *)
(* LayoutSpec : the layout function applied to bounded inputs.             *)
(* Spec       : the handler / undo state machine.                          *)
(***************************************************************************)
EXTENDS Integers, Sequences, FiniteSets, TLC

VARIABLES
    \* ---- layout ----
    specs,      \* []columnSpec of the current tab: [Title, HideOrder]
    widths,     \* rendered widths of the visible columns (last render)
    sepWidth,   \* separator width (last render)
    built,      \* stacks after the leading/interior/trailing passes
    clamped,    \* stacks after the clamp pass (input of the merge pass)
    stacks,     \* value returned by computeCollapsedStacks
    seps,       \* value returned by gapSeparators (last render)
    painted,    \* badge lines, connector and ladle bottom (last render)
    rendered,   \* TRUE once computeCollapsedStacks has run
    \* ---- handlers / undo ----
    tabs,       \* Model.tabs: the tabs in tab order, each with its Handler
    handler,    \* the tab handler in use: its FormKind
    store,      \* rows of the handler's entity table, by id
    undoStack,  \* sequence of undoEntry, top last
    lastCmd     \* the last command with what it returned

layoutVars == <<specs, widths, sepWidth, built, clamped, stacks, seps, painted,
               rendered>>
handlerVars == <<tabs, handler, store, undoStack, lastCmd>>
vars == <<specs, widths, sepWidth, built, clamped, stacks, seps, painted, rendered,
          tabs, handler, store, undoStack, lastCmd>>

-----------------------------------------------------------------------------
(* Bounds *)

NCols == 5
MaxWidth == 12
MaxSep == 3
MaxUndo == 2
MaxTabs == 4
MaxHideOrder == 3

\* Rendered widths a visible column is given: squeezed, narrow, wide.
RenderedWidths == {1, 4, MaxWidth}

-----------------------------------------------------------------------------
(* Column schemas (tables.go) *)

projectColumns == <<"ID", "Type", "Title", "Status", "Budget", "Actual", "Start", "End">>

quoteColumns == <<"ID", "Project", "Vendor", "Total", "Labor", "Mat", "Other", "Recv">>

maintenanceColumns == <<"ID", "Item", "Category", "Last", "Next", "Every", "Manual">>

TabColumns == {projectColumns, quoteColumns, maintenanceColumns}

Min(a, b) == IF a < b THEN a ELSE b

Max(a, b) == IF a > b THEN a ELSE b

\* lipgloss.Width of an unstyled ASCII title: its number of cells.
lipglossWidth(name) == Len(name)

\* The visible columns' full indexes (0-based), ascending.
RECURSIVE VisUpTo(_, _)
VisUpTo(sp, k) ==
    IF k = 0 THEN <<>>
    ELSE IF sp[k].HideOrder = 0 THEN Append(VisUpTo(sp, k - 1), k - 1)
    ELSE VisUpTo(sp, k - 1)

visToFullOf(sp) == VisUpTo(sp, Len(sp))

-----------------------------------------------------------------------------
(* computeCollapsedStacks and helpers *)

\* Mutant: the lower end of the range is ignored (every hidden column below hi).
RECURSIVE collectHiddenEntries_NoLo(_, _, _)
collectHiddenEntries_NoLo(sp, lo, hi) ==
    IF hi <= 0 THEN <<>>
    ELSE LET i == hi - 1
             rest == collectHiddenEntries_NoLo(sp, lo, i)
         IN IF sp[i + 1].HideOrder > 0
            THEN <<[name |-> sp[i + 1].Title, fullIndex |-> i,
                    hideOrder |-> sp[i + 1].HideOrder]>> \o rest
            ELSE rest

RECURSIVE collectHiddenEntries(_, _, _)
collectHiddenEntries(sp, lo, hi) ==
    IF hi <= lo THEN <<>>
    ELSE LET i == hi - 1
             rest == collectHiddenEntries(sp, lo, i)
         IN IF sp[i + 1].HideOrder > 0
            THEN <<[name |-> sp[i + 1].Title, fullIndex |-> i,
                    hideOrder |-> sp[i + 1].HideOrder]>> \o rest
            ELSE rest

\* Mutant: only the first entry's title is measured.
maxEntryWidth_First(entries) ==
    IF entries = <<>> THEN 0 ELSE lipglossWidth(Head(entries).name)

RECURSIVE maxEntryWidth(_)
maxEntryWidth(entries) ==
    IF entries = <<>> THEN 0
    ELSE Max(lipglossWidth(Head(entries).name), maxEntryWidth(Tail(entries)))

RECURSIVE sumInts(_)
sumInts(ws) == IF ws = <<>> THEN 0 ELSE Head(ws) + sumInts(Tail(ws))

\* Mutant: the leading run is forgotten.
LeadingStacks_None(sp, vis) == <<>>

\* Leading hidden columns (before the first visible one).
LeadingStacks(sp, vis) ==
    IF vis[1] > 0
    THEN LET entries == collectHiddenEntries(sp, 0, vis[1])
         IN IF Len(entries) > 0
            THEN <<[entries |-> entries, offset |-> 0,
                    width |-> maxEntryWidth(entries) + 2, edge |-> TRUE]>>
            ELSE <<>>
    ELSE <<>>

\* The loop over the visible columns, iterations i..n-1 (0-based), entered
\* with the running offset; yields the interior stacks and the final offset.
RECURSIVE InteriorLoop(_, _, _, _, _, _)
InteriorLoop(sp, vis, ws, sep, i, offset) ==
    IF i >= Len(vis) THEN [stacks |-> <<>>, offset |-> offset]
    ELSE LET lo == vis[i] + 1
             hi == vis[i + 1]
             entries == collectHiddenEntries(sp, lo, hi)
             w == maxEntryWidth(entries) + 2
             gapCenter == offset + (sep \div 2)
             pillOff == Max(gapCenter - (w \div 2), 0)
             here == IF i > 0 /\ hi > lo /\ Len(entries) > 0
                     THEN <<[entries |-> entries, offset |-> pillOff,
                             width |-> w, edge |-> FALSE]>>
                     ELSE <<>>
             off1 == IF i > 0 THEN offset + sep ELSE offset
             off2 == IF i < Len(ws) THEN off1 + ws[i + 1] ELSE off1
             rest == InteriorLoop(sp, vis, ws, sep, i + 1, off2)
         IN [stacks |-> here \o rest.stacks, offset |-> rest.offset]

\* Mutant: the trailing run is built as an interior stack.
TrailingStacks_Interior(sp, vis, offset) ==
    LET last == vis[Len(vis)]
    IN IF last < Len(sp) - 1
       THEN LET entries == collectHiddenEntries(sp, last + 1, Len(sp))
                w == maxEntryWidth(entries) + 2
            IN IF Len(entries) > 0
               THEN <<[entries |-> entries, offset |-> Max(offset - w, 0),
                       width |-> w, edge |-> FALSE]>>
               ELSE <<>>
       ELSE <<>>

\* Mutant: the trailing run is forgotten.
TrailingStacks_None(sp, vis, offset) == <<>>

\* Trailing hidden columns (after the last visible one).
TrailingStacks(sp, vis, offset) ==
    LET last == vis[Len(vis)]
    IN IF last < Len(sp) - 1
       THEN LET entries == collectHiddenEntries(sp, last + 1, Len(sp))
                w == maxEntryWidth(entries) + 2
            IN IF Len(entries) > 0
               THEN <<[entries |-> entries, offset |-> Max(offset - w, 0),
                       width |-> w, edge |-> TRUE]>>
               ELSE <<>>
       ELSE <<>>

BuildStacks(sp, vis, ws, sep) ==
    LET inner == InteriorLoop(sp, vis, ws, sep, 0, 0)
    IN LeadingStacks(sp, vis) \o inner.stacks \o TrailingStacks(sp, vis, inner.offset)

totalWidthOf(ws, sep) ==
    IF Len(ws) > 1 THEN sumInts(ws) + (Len(ws) - 1) * sep ELSE sumInts(ws)

\* Mutant: no clamp.
ClampStack_None(s, total) == s

ClampStack(s, total) ==
    LET w == IF s.width > total THEN total ELSE s.width
        o1 == IF s.offset + w > total THEN total - w ELSE s.offset
        o2 == IF o1 < 0 THEN 0 ELSE o1
    IN [s EXCEPT !.width = w, !.offset = o2]

ClampStacks(ss, total) == [i \in 1..Len(ss) |-> ClampStack(ss[i], total)]

\* One iteration of the merge loop: s is folded into the last merged stack
\* when it starts before that stack's end, and appended otherwise.
Overlaps(last, s) == s.offset < last.offset + last.width

\* Mutant: the absorbed stack's entries are lost.
Combine_DropEntries(last, s, total) ==
    LET end == Max(last.offset + last.width, s.offset + s.width)
        w == end - last.offset
    IN [entries |-> last.entries,
        offset |-> last.offset,
        width |-> IF w > total THEN total ELSE w,
        edge |-> last.edge \/ s.edge]

\* Mutant: a merge takes the edge mark of the absorbed stack only.
Combine_AbsorbedEdge(last, s, total) ==
    LET end == Max(last.offset + last.width, s.offset + s.width)
        w == end - last.offset
    IN [entries |-> last.entries \o s.entries,
        offset |-> last.offset,
        width |-> IF w > total THEN total ELSE w,
        edge |-> s.edge]

Combine(last, s, total) ==
    LET end == Max(last.offset + last.width, s.offset + s.width)
        w == end - last.offset
    IN [entries |-> last.entries \o s.entries,
        offset |-> last.offset,
        width |-> IF w > total THEN total ELSE w,
        edge |-> last.edge \/ s.edge]

\* Mutant: the merge pass never merges.
MergeStep_Append(merged, s, total) == Append(merged, s)

MergeStep(merged, s, total) ==
    IF Len(merged) > 0 /\ Overlaps(merged[Len(merged)], s)
    THEN [merged EXCEPT ![Len(merged)] = Combine(merged[Len(merged)], s, total)]
    ELSE Append(merged, s)

RECURSIVE MergeStacks(_, _)
MergeStacks(ss, total) ==
    IF ss = <<>> THEN <<>>
    ELSE MergeStep(MergeStacks(SubSeq(ss, 1, Len(ss) - 1), total), ss[Len(ss)], total)

\* sort.Slice by fullIndex descending (the keys are distinct: insertion sort).
RECURSIVE InsertDesc(_, _)
InsertDesc(e, sorted) ==
    IF sorted = <<>> THEN <<e>>
    ELSE IF e.fullIndex > Head(sorted).fullIndex THEN <<e>> \o sorted
    ELSE <<Head(sorted)>> \o InsertDesc(e, Tail(sorted))

\* Mutant: the entries are left in the order the merge appended them.
SortEntries_Keep(entries) == entries

RECURSIVE SortEntries(_)
SortEntries(entries) ==
    IF entries = <<>> THEN <<>>
    ELSE InsertDesc(Head(entries), SortEntries(Tail(entries)))

SortStacks(ss) == [i \in 1..Len(ss) |-> [ss[i] EXCEPT !.entries = SortEntries(ss[i].entries)]]

computeCollapsedStacks(sp, vis, ws, sep) ==
    IF Len(vis) = 0 THEN <<>>
    ELSE SortStacks(MergeStacks(ClampStacks(BuildStacks(sp, vis, ws, sep),
                                            totalWidthOf(ws, sep)),
                                totalWidthOf(ws, sep)))

-----------------------------------------------------------------------------
(* gapSeparators *)

\* The separator drawn between two visible columns, sepWidth cells wide.
RECURSIVE normalSepOf(_)
normalSepOf(w) ==
    IF w = 0 THEN ""
    ELSE IF w = 1 THEN "|"
    ELSE IF w % 2 = 1 THEN " " \o normalSepOf(w - 1)
    ELSE normalSepOf(w - 1) \o " "

\* The collapsed indicator: an ellipsis between two spaces.
collapsedSep == " ... "

NoSeps == [plainSeps |-> <<>>, collapsedSeps |-> <<>>]

\* Mutant: a gap is taken for collapsed as soon as the indexes differ.
gapSeparators_AnyGap(visToFull, totalCols, normalSep) ==
    LET n == Len(visToFull)
    IN IF n <= 1 THEN NoSeps
       ELSE [plainSeps |-> [i \in 1..(n - 1) |-> normalSep],
             collapsedSeps |->
                 [i \in 1..(n - 1) |->
                     IF visToFull[i + 1] > visToFull[i]
                     THEN collapsedSep ELSE normalSep]]

gapSeparators(visToFull, totalCols, normalSep) ==
    LET n == Len(visToFull)
    IN IF n <= 1 THEN NoSeps
       ELSE [plainSeps |-> [i \in 1..(n - 1) |-> normalSep],
             collapsedSeps |->
                 [i \in 1..(n - 1) |->
                     IF visToFull[i + 1] > visToFull[i] + 1
                     THEN collapsedSep ELSE normalSep]]

-----------------------------------------------------------------------------
(* StackRenderer: badge lines, connector and ladle bottom *)

\* A rendered line is a sequence of terminal cells, one per column.
Cell(glyph, color, name, at) == [glyph |-> glyph, color |-> color, name |-> name, at |-> at]

Blank == Cell(" ", "", "", 0)

\* strings.Repeat of a one-cell string.
Repeat(cell, n) == [i \in 1..n |-> cell]

Palette == <<"accent", "secondary", "warning", "success", "textMid">>

candyColor(index) == Palette[(index % Len(Palette)) + 1]

\* Mutant: the badge is colored by the entry's hide order.
Badge_ByHideOrder(entry, width) ==
    [k \in 1..width |-> Cell("pill", candyColor(entry.hideOrder), entry.name, k)]

\* style.Render(entry.name) with Width(stack.width), centered, on the
\* entry's candy color: a block stack.width cells wide; cell k of the badge
\* carries at = k.
Badge(entry, width) ==
    [k \in 1..width |-> Cell("pill", candyColor(entry.fullIndex), entry.name, k)]

\* The pills of one depth, in stack order.
RECURSIVE PillsAt(_, _)
PillsAt(ss, depth) ==
    IF ss = <<>> THEN <<>>
    ELSE LET stack == Head(ss)
             rest == PillsAt(Tail(ss), depth)
         IN IF depth >= Len(stack.entries) THEN rest
            ELSE <<[offset |-> stack.offset,
                    text |-> Badge(stack.entries[depth + 1], stack.width),
                    width |-> stack.width]>> \o rest

\* sort.Slice by offset ascending.
RECURSIVE InsertByOffset(_, _)
InsertByOffset(p, sorted) ==
    IF sorted = <<>> THEN <<p>>
    ELSE IF p.offset < Head(sorted).offset THEN <<p>> \o sorted
    ELSE <<Head(sorted)>> \o InsertByOffset(p, Tail(sorted))

RECURSIVE SortPills(_)
SortPills(pills) ==
    IF pills = <<>> THEN <<>>
    ELSE InsertByOffset(Head(pills), SortPills(Tail(pills)))

\* Mutant: a pill is always written right at the cursor, without the pad.
RECURSIVE WritePills_NoPad(_, _)
WritePills_NoPad(pills, cursor) ==
    IF pills = <<>> THEN <<>>
    ELSE Head(pills).text \o WritePills_NoPad(Tail(pills), cursor + Head(pills).width)

\* The writing loop: pad up to the pill's offset when the cursor is left of
\* it, write the pill, advance the cursor by the pill's width.
RECURSIVE WritePills(_, _)
WritePills(pills, cursor) ==
    IF pills = <<>> THEN <<>>
    ELSE LET p == Head(pills)
             pad == IF p.offset > cursor THEN Repeat(Blank, p.offset - cursor) ELSE <<>>
             c1 == IF p.offset > cursor THEN p.offset ELSE cursor
         IN pad \o p.text \o WritePills(Tail(pills), c1 + p.width)

renderStackLine(ss, depth) == WritePills(SortPills(PillsAt(ss, depth)), 0)

RECURSIVE maxDepthOf(_)
maxDepthOf(ss) ==
    IF ss = <<>> THEN 0 ELSE Max(Len(Head(ss).entries), maxDepthOf(Tail(ss)))

\* Mutant: the deepest level is not rendered.
renderCollapsedStacks_Short(ss) ==
    IF Len(ss) = 0 THEN <<>>
    ELSE [d \in 1..(maxDepthOf(ss) - 1) |-> renderStackLine(ss, d - 1)]

renderCollapsedStacks(ss) ==
    IF Len(ss) = 0 THEN <<>>
    ELSE [d \in 1..maxDepthOf(ss) |-> renderStackLine(ss, d - 1)]

Bar == Cell("|", "secondary", "", 0)

\* Mutant: edge stacks get a connector too.
RECURSIVE WriteConnectors_Every(_, _)
WriteConnectors_Every(ss, cursor) ==
    IF ss = <<>> THEN <<>>
    ELSE LET stack == Head(ss)
             center == stack.offset + (stack.width \div 2)
             pad == IF center > cursor THEN Repeat(Blank, center - cursor) ELSE <<>>
             c1 == IF center > cursor THEN center ELSE cursor
         IN pad \o <<Bar>> \o WriteConnectors_Every(Tail(ss), c1 + 1)

\* The loop of renderStackConnector: edge stacks are skipped, a bar is
\* written at the center of every other stack.
RECURSIVE WriteConnectors(_, _)
WriteConnectors(ss, cursor) ==
    IF ss = <<>> THEN <<>>
    ELSE LET stack == Head(ss)
             center == stack.offset + (stack.width \div 2)
             pad == IF center > cursor THEN Repeat(Blank, center - cursor) ELSE <<>>
             c1 == IF center > cursor THEN center ELSE cursor
         IN IF stack.edge THEN WriteConnectors(Tail(ss), cursor)
            ELSE pad \o <<Bar>> \o WriteConnectors(Tail(ss), c1 + 1)

renderStackConnector(ss) ==
    IF \A i \in 1..Len(ss) : ss[i].edge THEN <<>> ELSE WriteConnectors(ss, 0)

\* ladleChrome: the border strings of the ladle and the cells they take.
ladleChrome(hasLeading, hasTrailing) ==
    [left |-> IF hasLeading THEN <<Bar, Blank>> ELSE <<>>,
     right |-> IF hasTrailing THEN <<Blank, Bar>> ELSE <<>>,
     width |-> (IF hasLeading THEN 2 ELSE 0) + (IF hasTrailing THEN 2 ELSE 0)]

CornerLeft == Cell("bottom-left", "secondary", "", 0)

CornerRight == Cell("bottom-right", "secondary", "", 0)

Dash == Cell("-", "secondary", "", 0)

\* The first stack that satisfies the loop's test, as a one-element list.
RECURSIVE FirstLeading(_)
FirstLeading(ss) ==
    IF ss = <<>> THEN <<>>
    ELSE IF Head(ss).edge /\ Head(ss).offset = 0 THEN <<Head(ss)>>
    ELSE FirstLeading(Tail(ss))

RECURSIVE FirstEdge(_)
FirstEdge(ss) ==
    IF ss = <<>> THEN <<>>
    ELSE IF Head(ss).edge THEN <<Head(ss)>>
    ELSE FirstEdge(Tail(ss))

\* Mutant: the right-hand curve starts at column 0 whatever the trailing
\* stack's offset.
renderLadleBottom_FromZero(ss, hasLeading, hasTrailing, leftWidth, colSpaceWidth) ==
    LET fullWidth == leftWidth + colSpaceWidth + (IF hasTrailing THEN 2 ELSE 0)
        leadW == IF FirstLeading(ss) = <<>> THEN 0 ELSE FirstLeading(ss)[1].width
    IN IF ~hasLeading /\ ~hasTrailing THEN <<>>
       ELSE IF hasLeading /\ hasTrailing
       THEN IF fullWidth < 2 THEN <<>>
            ELSE <<CornerLeft>> \o Repeat(Dash, fullWidth - 2) \o <<CornerRight>>
       ELSE IF hasLeading
       THEN IF leadW > 0 THEN <<CornerLeft>> \o Repeat(Dash, 1 + leadW) ELSE <<>>
       ELSE Repeat(Blank, leftWidth) \o Repeat(Dash, colSpaceWidth + 1) \o <<CornerRight>>

renderLadleBottom(ss, hasLeading, hasTrailing, leftWidth, colSpaceWidth) ==
    LET rightWidth == IF hasTrailing THEN 2 ELSE 0
        fullWidth == leftWidth + colSpaceWidth + rightWidth
        leadW == IF FirstLeading(ss) = <<>> THEN 0 ELSE FirstLeading(ss)[1].width
        trailOff == IF FirstEdge(ss) = <<>> THEN 0 ELSE FirstEdge(ss)[1].offset
        start == leftWidth + trailOff
        dashLen == colSpaceWidth - trailOff + 1
    IN IF ~hasLeading /\ ~hasTrailing THEN <<>>
       ELSE IF hasLeading /\ hasTrailing
       THEN IF fullWidth < 2 THEN <<>>
            ELSE <<CornerLeft>> \o Repeat(Dash, fullWidth - 2) \o <<CornerRight>>
       ELSE IF hasLeading
       THEN IF leadW > 0 THEN <<CornerLeft>> \o Repeat(Dash, 1 + leadW) ELSE <<>>
       ELSE Repeat(Blank, start) \o Repeat(Dash, dashLen) \o <<CornerRight>>

\* Whether hidden columns lie before the first / after the last visible one.
hasLeadingOf(sp, vis) == Len(vis) > 0 /\ vis[1] > 0

hasTrailingOf(sp, vis) == Len(vis) > 0 /\ vis[Len(vis)] < Len(sp) - 1

NoPaint == [lines |-> <<>>, connector |-> <<>>, ladle |-> <<>>]

\* The collapsed region as the view paints it below the table.
Paint(sp, vis, ss, total) ==
    LET hasLeading == hasLeadingOf(sp, vis)
        hasTrailing == hasTrailingOf(sp, vis)
        chrome == ladleChrome(hasLeading, hasTrailing)
    IN [lines |-> renderCollapsedStacks(ss),
        connector |-> renderStackConnector(ss),
        ladle |-> renderLadleBottom(ss, hasLeading, hasTrailing,
                                    Len(chrome.left), total)]

-----------------------------------------------------------------------------
(* Layout specification *)

\* Hide orders handed out by hide toggles: the visible columns carry 0, the k
\* hidden ones the distinct orders 1..k in the order they were hidden.
HideOrders ==
    {h \in [1..NCols -> 0..NCols] :
        /\ \A i, j \in 1..NCols : (i # j /\ h[i] > 0) => h[i] # h[j]
        /\ \A i \in 1..NCols : h[i] > 1 => \E j \in 1..NCols : h[j] = h[i] - 1}

LayoutInit ==
    /\ \E tab \in TabColumns, h \in HideOrders :
          specs = [i \in 1..NCols |-> [Title |-> tab[i], HideOrder |-> h[i]]]
    /\ widths = <<>>
    /\ sepWidth = 0
    /\ built = <<>>
    /\ clamped = <<>>
    /\ stacks = <<>>
    /\ seps = NoSeps
    /\ painted = NoPaint
    /\ rendered = FALSE
    /\ tabs = <<>>
    /\ handler = "none"
    /\ store = <<>>
    /\ undoStack = <<>>
    /\ lastCmd = <<>>

\* One render: the view derives visToFull from the specs, measures the
\* visible columns and calls computeCollapsedStacks.
RenderWith(ws, sep) ==
    /\ LET vis == visToFullOf(specs)
           total == totalWidthOf(ws, sep)
           b == IF Len(vis) = 0 THEN <<>> ELSE BuildStacks(specs, vis, ws, sep)
       IN /\ widths' = ws
          /\ sepWidth' = sep
          /\ built' = b
          /\ clamped' = ClampStacks(b, total)
          /\ stacks' = computeCollapsedStacks(specs, vis, ws, sep)
          /\ seps' = gapSeparators(vis, Len(specs), normalSepOf(sep))
          /\ painted' = Paint(specs, vis,
                              computeCollapsedStacks(specs, vis, ws, sep), total)
    /\ rendered' = TRUE
    /\ UNCHANGED <<specs, handlerVars>>

Render ==
    /\ ~rendered
    /\ \E ws \in [1..Len(visToFullOf(specs)) -> RenderedWidths], sep \in 0..MaxSep :
          RenderWith(ws, sep)

LayoutNext == Render

LayoutSpec == LayoutInit /\ [][LayoutNext]_vars

-----------------------------------------------------------------------------
(* Hide / show toggles *)

\* The next hide order: one more than the highest order in use.
RECURSIVE maxHideOrder(_)
maxHideOrder(sp) ==
    IF sp = <<>> THEN 0 ELSE Max(Head(sp).HideOrder, maxHideOrder(Tail(sp)))

nextHideOrder(sp) == maxHideOrder(sp) + 1

NoToggle == [op |-> "none", col |-> 0, visBefore |-> <<>>]

ToggleInit ==
    /\ \E tab \in TabColumns :
          specs = [i \in 1..NCols |-> [Title |-> tab[i], HideOrder |-> 0]]
    /\ widths = <<>>
    /\ sepWidth = 0
    /\ built = <<>>
    /\ clamped = <<>>
    /\ stacks = <<>>
    /\ seps = NoSeps
    /\ painted = NoPaint
    /\ rendered = FALSE
    /\ tabs = <<>>
    /\ handler = "none"
    /\ store = <<>>
    /\ undoStack = <<>>
    /\ lastCmd = NoToggle

\* Mutant: hiding a column renumbers the columns already hidden from 1 and
\* forgets the column that was hidden first.
HideColumn_DropsOldest(c) ==
    /\ specs[c + 1].HideOrder = 0
    /\ nextHideOrder(specs) <= MaxHideOrder
    /\ specs' = [i \in 1..Len(specs) |->
                    [specs[i] EXCEPT !.HideOrder =
                        IF i = c + 1 THEN nextHideOrder(specs)
                        ELSE IF specs[i].HideOrder > 0 THEN specs[i].HideOrder - 1
                        ELSE 0]]
    /\ lastCmd' = [op |-> "hide", col |-> c, visBefore |-> visToFullOf(specs)]
    /\ UNCHANGED <<widths, sepWidth, built, clamped, stacks, seps, painted, rendered,
                   tabs, handler, store, undoStack>>

\* Hide the visible column with full index c: it takes the next hide order.
HideColumn(c) ==
    /\ specs[c + 1].HideOrder = 0
    /\ nextHideOrder(specs) <= MaxHideOrder
    /\ specs' = [specs EXCEPT ![c + 1].HideOrder = nextHideOrder(specs)]
    /\ lastCmd' = [op |-> "hide", col |-> c, visBefore |-> visToFullOf(specs)]
    /\ UNCHANGED <<widths, sepWidth, built, clamped, stacks, seps, painted, rendered,
                   tabs, handler, store, undoStack>>

\* Show the hidden column with full index c: its hide order is cleared.
ShowColumn(c) ==
    /\ specs[c + 1].HideOrder > 0
    /\ specs' = [specs EXCEPT ![c + 1].HideOrder = 0]
    /\ lastCmd' = [op |-> "show", col |-> c, visBefore |-> visToFullOf(specs)]
    /\ UNCHANGED <<widths, sepWidth, built, clamped, stacks, seps, painted, rendered,
                   tabs, handler, store, undoStack>>

ToggleNext ==
    \/ \E c \in 0..(NCols - 1) : HideColumn(c)
    \/ \E c \in 0..(NCols - 1) : ShowColumn(c)

ToggleSpec == ToggleInit /\ [][ToggleNext]_vars

\* A tab one column wider than the layout bound, so that full indexes run
\* past the end of the palette.
PaintCols == NCols + 1

PaintInit ==
    /\ \E tab \in TabColumns :
          specs = [i \in 1..PaintCols |-> [Title |-> tab[i], HideOrder |-> 0]]
    /\ widths = <<>>
    /\ sepWidth = 0
    /\ built = <<>>
    /\ clamped = <<>>
    /\ stacks = <<>>
    /\ seps = NoSeps
    /\ painted = NoPaint
    /\ rendered = FALSE
    /\ tabs = <<>>
    /\ handler = "none"
    /\ store = <<>>
    /\ undoStack = <<>>
    /\ lastCmd = NoToggle

\* A render after the toggles, every visible column squeezed or every one
\* wide, without or with the widest separator.
RenderUniform ==
    /\ ~rendered
    /\ \E w \in {1, MaxWidth}, sep \in {0, MaxSep} :
          RenderWith([i \in 1..Len(visToFullOf(specs)) |-> w], sep)

PaintNext ==
    \/ \E c \in 0..(PaintCols - 1) : ~rendered /\ HideColumn(c)
    \/ \E c \in 0..(PaintCols - 1) : ~rendered /\ ShowColumn(c)
    \/ RenderUniform

PaintSpec == PaintInit /\ [][PaintNext]_vars

-----------------------------------------------------------------------------
(* Malformed column lists *)

\* Two hidden columns carry the same positive hide order.
DuplicateHideOrder(sp) ==
    \E i, j \in 1..Len(sp) :
        i # j /\ sp[i].HideOrder > 0 /\ sp[i].HideOrder = sp[j].HideOrder

\* Column lists that break the uniqueness of the hide orders.
MalformedInit ==
    /\ \E tab \in TabColumns, h \in [1..NCols -> 0..1] :
          /\ specs = [i \in 1..NCols |-> [Title |-> tab[i], HideOrder |-> h[i]]]
          /\ DuplicateHideOrder(specs)
    /\ widths = <<>>
    /\ sepWidth = 0
    /\ built = <<>>
    /\ clamped = <<>>
    /\ stacks = <<>>
    /\ seps = NoSeps
    /\ painted = NoPaint
    /\ rendered = FALSE
    /\ tabs = <<>>
    /\ handler = "none"
    /\ store = <<>>
    /\ undoStack = <<>>
    /\ lastCmd = <<>>

MalformedSpec == MalformedInit /\ [][LayoutNext]_vars

-----------------------------------------------------------------------------
(* Entities and the persistence collaborator (data.Store) *)

Handlers == {"projectHandler", "quoteHandler", "maintenanceHandler", "applianceHandler"}

\* Entity ids with a row in the handler's table; MissingID has none.
Ids == {1, 2}

MissingID == Cardinality(Ids) + 1

\* Field values an entity of the handler's type can hold.
RowVals(h) ==
    CASE h = "projectHandler" ->
            {[Title |-> "Kitchen remodel", Status |-> "planned", BudgetCents |-> 100],
             [Title |-> "Deck", Status |-> "underway", BudgetCents |-> 250]}
      [] h = "quoteHandler" ->
            {[Vendor |-> "Acme", TotalCents |-> 100],
             [Vendor |-> "Bolt", TotalCents |-> 250]}
      [] h = "maintenanceHandler" ->
            {[Name |-> "Furnace filter", IntervalMonths |-> 3],
             [Name |-> "Gutters", IntervalMonths |-> 6]}
      [] h = "applianceHandler" ->
            {[Name |-> "Dishwasher", Brand |-> "Bosch"],
             [Name |-> "Dryer", Brand |-> "Miele"]}

\* The Go zero value of the handler's entity struct.
ZeroRow(h) ==
    CASE h = "projectHandler" -> [Title |-> "", Status |-> "", BudgetCents |-> 0]
      [] h = "quoteHandler" -> [Vendor |-> "", TotalCents |-> 0]
      [] h = "maintenanceHandler" -> [Name |-> "", IntervalMonths |-> 0]
      [] h = "applianceHandler" -> [Name |-> "", Brand |-> ""]

\* What a store call can run into besides its own checks: nothing, an I/O
\* error (referential-guard violations surface the same way).
Faults == {"", "io"}

MutatingCalls == {"Delete", "Restore", "Update"}

Resolves(st, id) == id \in DOMAIN st /\ ~st[id].deleted

\* store.GetX(id): the live row, or an error.
StoreGet(st, id, fault) ==
    IF fault # "" THEN [err |-> fault]
    ELSE IF ~Resolves(st, id) THEN [err |-> "notfound"]
    ELSE [err |-> "", row |-> st[id].row]

\* store.DeleteX(id): soft delete (sets deleted_at), the fields stay.
StoreDelete(st, id, fault) ==
    IF fault # "" THEN [err |-> fault, st |-> st]
    ELSE IF ~Resolves(st, id) THEN [err |-> "notfound", st |-> st]
    ELSE [err |-> "", st |-> [st EXCEPT ![id].deleted = TRUE]]

\* store.RestoreX(id): clears deleted_at.
StoreRestore(st, id, fault) ==
    IF fault # "" THEN [err |-> fault, st |-> st]
    ELSE IF id \notin DOMAIN st \/ ~st[id].deleted THEN [err |-> "notfound", st |-> st]
    ELSE [err |-> "", st |-> [st EXCEPT ![id].deleted = FALSE]]

\* store.UpdateX(entity): writes the entity's field values onto its row.
StoreUpdate(st, id, row, fault) ==
    IF fault # "" THEN [err |-> fault, st |-> st]
    ELSE IF id \notin DOMAIN st THEN [err |-> "notfound", st |-> st]
    ELSE [err |-> "", st |-> [st EXCEPT ![id].row = row]]

-----------------------------------------------------------------------------
(* TabHandler implementations *)

FormKind(h) ==
    CASE h = "projectHandler" -> "formProject"
      [] h = "quoteHandler" -> "formQuote"
      [] h = "maintenanceHandler" -> "formMaintenance"
      [] h = "applianceHandler" -> "formAppliance"

\* The entity table a handler's store calls go to (store.DeleteProject,
\* store.GetQuote, ...), by the handler's form kind.
EntityOf(kind) ==
    CASE kind = "formProject" -> "Project"
      [] kind = "formQuote" -> "Quote"
      [] kind = "formMaintenance" -> "Maintenance"
      [] kind = "formAppliance" -> "Appliance"
      [] OTHER -> ""

\* One call of a store method: store.<fn><entity>(id).
Call(h, fn, id) == [fn |-> fn, entity |-> EntityOf(FormKind(h)), id |-> id]

\* undoEntry{}: the zero entry, with a nil Restore.
EmptyEntry(h) ==
    [Description |-> "", FormKind |-> "formNone", EntityID |-> 0,
     Restore |-> [fn |-> "nil", arg |-> ZeroRow(h)]]

\* fmt.Sprintf of the entry's description.
Description(h, row) ==
    CASE h = "projectHandler" -> "project \"" \o row.Title \o "\""
      [] h = "quoteHandler" -> "quote from " \o row.Vendor
      [] h = "maintenanceHandler" -> "maintenance \"" \o row.Name \o "\""
      [] h = "applianceHandler" -> "appliance \"" \o row.Name \o "\""

\* Mutant: every Snapshot stamps its entry with the project form.
SnapshotKind_Shared(h) == "formProject"

\* The FormKind literal each Snapshot writes into its undoEntry.
SnapshotKind(h) ==
    CASE h = "projectHandler" -> "formProject"
      [] h = "quoteHandler" -> "formQuote"
      [] h = "maintenanceHandler" -> "formMaintenance"
      [] h = "applianceHandler" -> "formAppliance"

\* Mutant: a failed lookup still yields an entry and found = true.
Snapshot_FoundOnError(h, st, id, fault) ==
    LET got == StoreGet(st, id, fault)
        row == IF got.err # "" THEN ZeroRow(h) ELSE got.row
    IN [entry |-> [Description |-> Description(h, row), FormKind |-> SnapshotKind(h),
                   EntityID |-> id, Restore |-> [fn |-> "Update", arg |-> row]],
        found |-> TRUE,
        calls |-> <<Call(h, "Get", id)>>]

\* Mutant: the Restore closure captures a fresh zero entity, not the one read.
Snapshot_ZeroCapture(h, st, id, fault) ==
    LET got == StoreGet(st, id, fault)
    IN IF got.err # ""
       THEN [entry |-> EmptyEntry(h), found |-> FALSE,
             calls |-> <<Call(h, "Get", id)>>]
       ELSE [entry |-> [Description |-> Description(h, got.row), FormKind |-> SnapshotKind(h),
                        EntityID |-> id, Restore |-> [fn |-> "Update", arg |-> ZeroRow(h)]],
             found |-> TRUE,
             calls |-> <<Call(h, "Get", id)>>]

\* h.Snapshot(store, id): reads the entity; on an error the zero entry and
\* found = false, else an entry whose Restore closure re-applies the row read.
Snapshot(h, st, id, fault) ==
    LET got == StoreGet(st, id, fault)
    IN IF got.err # ""
       THEN [entry |-> EmptyEntry(h), found |-> FALSE,
             calls |-> <<Call(h, "Get", id)>>]
       ELSE [entry |-> [Description |-> Description(h, got.row), FormKind |-> SnapshotKind(h),
                        EntityID |-> id, Restore |-> [fn |-> "Update", arg |-> got.row]],
             found |-> TRUE,
             calls |-> <<Call(h, "Get", id)>>]

\* Mutant: a failed soft delete is tried a second time.
Delete_RetryOnError(h, st, id, fault) ==
    LET r == StoreDelete(st, id, fault)
        again == StoreDelete(r.st, id, "")
    IN IF r.err = ""
       THEN [err |-> r.err, st |-> r.st, calls |-> <<Call(h, "Delete", id)>>]
       ELSE [err |-> again.err, st |-> again.st,
             calls |-> <<Call(h, "Delete", id), Call(h, "Delete", id)>>]

\* h.Delete(store, id): the store's soft delete, its error returned as is.
Delete(h, st, id, fault) ==
    LET r == StoreDelete(st, id, fault)
    IN [err |-> r.err, st |-> r.st, calls |-> <<Call(h, "Delete", id)>>]

\* h.Restore(store, id): the store's un-delete, its error returned as is.
Restore(h, st, id, fault) ==
    LET r == StoreRestore(st, id, fault)
    IN [err |-> r.err, st |-> r.st, calls |-> <<Call(h, "Restore", id)>>]

\* The Restore closure of an entry made by Snapshot: store.UpdateX(captured).
EntryRestore(e, st, fault) ==
    LET r == StoreUpdate(st, e.EntityID, e.Restore.arg, fault)
    IN [err |-> r.err, st |-> r.st, calls |-> <<[fn |-> "Update", entity |-> EntityOf(e.FormKind), id |-> e.EntityID]>>]

-----------------------------------------------------------------------------
(* Undo stack and the commands that drive the handlers *)

\* Push onto the bounded stack (top last); the oldest entry falls off.
Push(stack, e) ==
    IF Len(stack) >= MaxUndo THEN Append(Tail(stack), e) ELSE Append(stack, e)

Pop(stack) == SubSeq(stack, 1, Len(stack) - 1)

Top(stack) == stack[Len(stack)]

\* TRUE when command c was a delete whose Snapshot found the entity and whose
\* soft delete succeeded.
DeletedWithSnapshot(c) == c.op = "delete" /\ c.found /\ c.err = ""

NoCommand(h) ==
    [op |-> "none", id |-> 0, found |-> FALSE, err |-> "",
     snap |-> EmptyEntry(h), before |-> ZeroRow(h), calls |-> <<>>,
     afterDelete |-> FALSE]

RowBefore(id) == IF id \in DOMAIN store THEN store[id].row ELSE ZeroRow(handler)

Init ==
    /\ handler \in Handlers
    /\ tabs = <<[Handler |-> handler]>>
    /\ store = [id \in Ids |-> [row |-> CHOOSE v \in RowVals(handler) : TRUE,
                                deleted |-> FALSE]]
    /\ undoStack = <<>>
    /\ lastCmd = NoCommand(handler)
    /\ specs = <<>>
    /\ widths = <<>>
    /\ sepWidth = 0
    /\ built = <<>>
    /\ clamped = <<>>
    /\ stacks = <<>>
    /\ seps = NoSeps
    /\ painted = NoPaint
    /\ rendered = FALSE

\* Delete command: snapshot for undo, push if found, then soft-delete.
DeleteCmd(id, f1, f2) ==
    LET snap == Snapshot(handler, store, id, f1)
        del == Delete(handler, store, id, f2)
    IN /\ undoStack' = IF snap.found THEN Push(undoStack, snap.entry) ELSE undoStack
       /\ store' = del.st
       /\ lastCmd' = [op |-> "delete", id |-> id, found |-> snap.found, err |-> del.err,
                   snap |-> snap.entry, before |-> RowBefore(id),
                   afterDelete |-> DeletedWithSnapshot(lastCmd),
                   calls |-> snap.calls \o del.calls]
       /\ UNCHANGED <<tabs, handler, layoutVars>>

\* Edit command (form submit): snapshot for undo, push if found, then update.
EditCmd(id, row, f1, f2) ==
    LET snap == Snapshot(handler, store, id, f1)
        upd == IF Resolves(store, id) THEN StoreUpdate(store, id, row, f2)
               ELSE [err |-> "notfound", st |-> store]
    IN /\ undoStack' = IF snap.found THEN Push(undoStack, snap.entry) ELSE undoStack
       /\ store' = upd.st
       /\ lastCmd' = [op |-> "edit", id |-> id, found |-> snap.found, err |-> upd.err,
                   snap |-> snap.entry, before |-> RowBefore(id),
                   afterDelete |-> DeletedWithSnapshot(lastCmd),
                   calls |-> snap.calls \o <<Call(handler, "Update", id)>>]
       /\ UNCHANGED <<tabs, handler, layoutVars>>

\* Restore command on a soft-deleted row.
RestoreCmd(id, fault) ==
    LET r == Restore(handler, store, id, fault)
    IN /\ store' = r.st
       /\ lastCmd' = [op |-> "restore", id |-> id, found |-> FALSE, err |-> r.err,
                   snap |-> EmptyEntry(handler), before |-> RowBefore(id),
                   afterDelete |-> DeletedWithSnapshot(lastCmd),
                   calls |-> r.calls]
       /\ UNCHANGED <<tabs, handler, undoStack, layoutVars>>

\* Mutant: a failed Restore discards the popped entry.
UndoCmd_Discard(fault) ==
    /\ Len(undoStack) > 0
    /\ LET e == Top(undoStack)
           r == EntryRestore(e, store, fault)
       IN /\ undoStack' = Pop(undoStack)
          /\ store' = r.st
          /\ lastCmd' = [op |-> "undo", id |-> e.EntityID, found |-> FALSE, err |-> r.err,
                      snap |-> e, before |-> RowBefore(e.EntityID), afterDelete |-> DeletedWithSnapshot(lastCmd),
                   calls |-> r.calls]
    /\ UNCHANGED <<tabs, handler, layoutVars>>

\* Undo command: pop the top entry and run its Restore; on failure the entry
\* is pushed back.
UndoCmd(fault) ==
    /\ Len(undoStack) > 0
    /\ LET e == Top(undoStack)
           popped == Pop(undoStack)
           r == EntryRestore(e, store, fault)
       IN /\ undoStack' = IF r.err # "" THEN Append(popped, e) ELSE popped
          /\ store' = r.st
          /\ lastCmd' = [op |-> "undo", id |-> e.EntityID, found |-> FALSE, err |-> r.err,
                      snap |-> e, before |-> RowBefore(e.EntityID), afterDelete |-> DeletedWithSnapshot(lastCmd),
                   calls |-> r.calls]
    /\ UNCHANGED <<tabs, handler, layoutVars>>

Next ==
    \/ \E id \in Ids \cup {MissingID}, f1, f2 \in Faults : DeleteCmd(id, f1, f2)
    \/ \E id \in Ids \cup {MissingID}, row \in RowVals(handler), f1, f2 \in Faults :
          EditCmd(id, row, f1, f2)
    \/ \E id \in Ids \cup {MissingID}, fault \in Faults : RestoreCmd(id, fault)
    \/ \E fault \in Faults : UndoCmd(fault)

Spec == Init /\ [][Next]_vars

-----------------------------------------------------------------------------
(* handlerForFormKind and the dispatch specification *)

\* A tab without a handler (Tab.Handler == nil), and the nil TabHandler.
NilHandler == "nil"

\* The FormKind values: no form, the house form (it has no tab), the four
\* entity forms, and a value outside the declared constants.
FormKinds ==
    {"formNone", "formHouse", "formProject", "formQuote", "formMaintenance",
     "formAppliance", "formUnknown"}

\* Mutant: the first tab that has a handler, whatever its kind.
RECURSIVE handlerForFormKind_AnyKind(_, _)
handlerForFormKind_AnyKind(ts, kind) ==
    IF ts = <<>> THEN NilHandler
    ELSE IF Head(ts).Handler # NilHandler THEN Head(ts).Handler
    ELSE handlerForFormKind_AnyKind(Tail(ts), kind)

\* m.handlerForFormKind(kind): the tabs are scanned in tab order; the first
\* one with a handler of that kind answers, nil when none does.
RECURSIVE handlerForFormKind(_, _)
handlerForFormKind(ts, kind) ==
    IF ts = <<>> THEN NilHandler
    ELSE IF Head(ts).Handler # NilHandler /\ FormKind(Head(ts).Handler) = kind
         THEN Head(ts).Handler
    ELSE handlerForFormKind(Tail(ts), kind)

\* Tab lists of up to MaxTabs tabs, each with one of the four handlers or
\* none.
TabLists ==
    UNION {[1..n -> [Handler : Handlers \cup {NilHandler}]] : n \in 0..MaxTabs}

\* TRUE when some tab's handler is h.
OwnsTab(ts, h) == \E i \in 1..Len(ts) : ts[i].Handler = h

NoDispatch(h) ==
    [op |-> "none", id |-> 0, kind |-> "formNone", found |-> FALSE,
     snap |-> EmptyEntry(h), result |-> NilHandler]

DispatchInit ==
    /\ tabs \in TabLists
    /\ handler \in Handlers
    /\ store = [id \in Ids |-> [row |-> CHOOSE v \in RowVals(handler) : TRUE,
                                deleted |-> FALSE]]
    /\ undoStack = <<>>
    /\ lastCmd = NoDispatch(handler)
    /\ specs = <<>>
    /\ widths = <<>>
    /\ sepWidth = 0
    /\ built = <<>>
    /\ clamped = <<>>
    /\ stacks = <<>>
    /\ seps = NoSeps
    /\ painted = NoPaint
    /\ rendered = FALSE

\* A form or undo entry of the given kind asks for its handler.
ResolveCmd(kind) ==
    /\ lastCmd' = [op |-> "resolve", id |-> 0, kind |-> kind, found |-> FALSE,
                   snap |-> EmptyEntry(handler),
                   result |-> handlerForFormKind(tabs, kind)]
    /\ UNCHANGED <<tabs, handler, store, undoStack, layoutVars>>

\* The handler of the tab in view snapshots an entity for undo.
SnapshotCmd(id, fault) ==
    /\ OwnsTab(tabs, handler)
    /\ LET snap == Snapshot(handler, store, id, fault)
       IN lastCmd' = [op |-> "snapshot", id |-> id, kind |-> snap.entry.FormKind,
                      found |-> snap.found, snap |-> snap.entry,
                      result |-> NilHandler]
    /\ UNCHANGED <<tabs, handler, store, undoStack, layoutVars>>

\* Undo of the entry just captured: its handler is looked up by the
\* entry's FormKind.
UndoResolveCmd ==
    /\ lastCmd.op = "snapshot"
    /\ lastCmd.found
    /\ lastCmd' = [lastCmd EXCEPT !.op = "undo",
                                  !.result = handlerForFormKind(tabs, lastCmd.snap.FormKind)]
    /\ UNCHANGED <<tabs, handler, store, undoStack, layoutVars>>

DispatchNext ==
    \/ \E kind \in FormKinds : ResolveCmd(kind)
    \/ \E id \in Ids \cup {MissingID}, fault \in Faults : SnapshotCmd(id, fault)
    \/ UndoResolveCmd

DispatchSpec == DispatchInit /\ [][DispatchNext]_vars

-----------------------------------------------------------------------------

(* Row builders (tables.go) and Load *)

\* style.Render(v): the value wrapped in the style's escape sequences.
styleRender(style, v) == "<" \o style \o ">" \o v \o "</" \o style \o ">"

emptyOr(value) == IF value = "" THEN styleRender("Empty", "n/a") ELSE value

\* data.FormatCents: dollars and two digits of cents.
FormatCents(cents) ==
    "$" \o ToString(cents \div 100) \o "."
        \o ToString((cents % 100) \div 10) \o ToString(cents % 10)

moneyOrEmpty(cents) == styleRender("Money", FormatCents(cents))

\* styledRow: a soft-deleted entity's cells are all struck through.
styledRow(values, deleted) ==
    IF ~deleted THEN values
    ELSE [i \in 1..Len(values) |-> styleRender("Deleted", values[i])]

\* The first cell of every row: the read-only rendered ID.
idCell(item) == styleRender("Readonly", ToString(item.ID))

projectValues(project) ==
    <<idCell(project), emptyOr(project.row.Title), emptyOr(project.row.Status),
      moneyOrEmpty(project.row.BudgetCents)>>

quoteValues(quote) ==
    <<idCell(quote), emptyOr(quote.row.Vendor),
      styleRender("Money", FormatCents(quote.row.TotalCents))>>

maintenanceValues(item) ==
    LET interval == IF item.row.IntervalMonths > 0
                    THEN ToString(item.row.IntervalMonths) \o " mo" ELSE ""
    IN <<idCell(item), emptyOr(item.row.Name), emptyOr(interval)>>

applianceValues(item) ==
    <<idCell(item), emptyOr(item.row.Name), emptyOr(item.row.Brand)>>

\* Mutant: the meta never marks a row deleted.
rowMetaOf_NeverDeleted(item) == [ID |-> item.ID, Deleted |-> FALSE]

\* rowMeta{ID: x.ID, Deleted: deleted}
rowMetaOf(item) == [ID |-> item.ID, Deleted |-> item.DeletedAt.Valid]

\* The row builders: for each entity, in input order, one styled row and one
\* rowMeta are appended.
projectRows(projects) ==
    [rows |-> [i \in 1..Len(projects) |->
                  styledRow(projectValues(projects[i]), projects[i].DeletedAt.Valid)],
     meta |-> [i \in 1..Len(projects) |-> rowMetaOf(projects[i])]]

quoteRows(quotes) ==
    [rows |-> [i \in 1..Len(quotes) |->
                  styledRow(quoteValues(quotes[i]), quotes[i].DeletedAt.Valid)],
     meta |-> [i \in 1..Len(quotes) |-> rowMetaOf(quotes[i])]]

maintenanceRows(items) ==
    [rows |-> [i \in 1..Len(items) |->
                  styledRow(maintenanceValues(items[i]), items[i].DeletedAt.Valid)],
     meta |-> [i \in 1..Len(items) |-> rowMetaOf(items[i])]]

applianceRows(items) ==
    [rows |-> [i \in 1..Len(items) |->
                  styledRow(applianceValues(items[i]), items[i].DeletedAt.Valid)],
     meta |-> [i \in 1..Len(items) |-> rowMetaOf(items[i])]]

\* The row builder each handler's Load calls.
rowsFor(h, items) ==
    CASE h = "projectHandler" -> projectRows(items)
      [] h = "quoteHandler" -> quoteRows(items)
      [] h = "maintenanceHandler" -> maintenanceRows(items)
      [] h = "applianceHandler" -> applianceRows(items)

\* The handlers whose row builder is in tables.go.
TableBuilders == {"projectHandler", "quoteHandler", "maintenanceHandler"}

\* store.ListX(showDeleted): the rows of the table in primary-key order, the
\* soft-deleted ones only when asked for.
RECURSIVE ListUpTo(_, _, _)
ListUpTo(st, showDeleted, k) ==
    IF k = 0 THEN <<>>
    ELSE IF k \in DOMAIN st /\ (showDeleted \/ ~st[k].deleted)
    THEN Append(ListUpTo(st, showDeleted, k - 1),
                [ID |-> k, DeletedAt |-> [Valid |-> st[k].deleted], row |-> st[k].row])
    ELSE ListUpTo(st, showDeleted, k - 1)

StoreList(st, showDeleted, fault) ==
    IF fault # "" THEN [err |-> fault, items |-> <<>>]
    ELSE [err |-> "", items |-> ListUpTo(st, showDeleted, MissingID)]

\* Mutant: the rows of the failed listing are built and returned anyway.
Load_RowsOnError(h, st, showDeleted, fault) ==
    LET l == StoreList(st, showDeleted, fault)
        partial == ListUpTo(st, showDeleted, MissingID)
        b == rowsFor(h, partial)
    IN [rows |-> b.rows, meta |-> b.meta, err |-> l.err, items |-> partial,
        calls |-> <<Call(h, "List", 0)>>]

\* h.Load(store, showDeleted): lists the entities and builds their rows; a
\* failed listing returns the error and nothing else.
Load(h, st, showDeleted, fault) ==
    LET l == StoreList(st, showDeleted, fault)
    IN IF l.err # ""
       THEN [rows |-> <<>>, meta |-> <<>>, err |-> l.err, items |-> <<>>,
             calls |-> <<Call(h, "List", 0)>>]
       ELSE LET b == rowsFor(h, l.items)
            IN [rows |-> b.rows, meta |-> b.meta, err |-> "", items |-> l.items,
                calls |-> <<Call(h, "List", 0)>>]

\* Entities a row builder can be handed: any id, live or soft-deleted.
Items(h) ==
    {[ID |-> id, DeletedAt |-> [Valid |-> d], row |-> v] :
        id \in Ids, d \in BOOLEAN, v \in RowVals(h)}

\* Tables of the handler's entity: any subset of the ids, any row values,
\* live or soft-deleted.
Stores(h) ==
    UNION {[D -> [row : RowVals(h), deleted : BOOLEAN]] : D \in SUBSET Ids}

NoLoad ==
    [op |-> "none", showDeleted |-> FALSE, err |-> "", items |-> <<>>,
     rows |-> <<>>, meta |-> <<>>, calls |-> <<>>]

LoadInit ==
    /\ handler \in Handlers
    /\ tabs = <<[Handler |-> handler]>>
    /\ store \in Stores(handler)
    /\ undoStack = <<>>
    /\ lastCmd = NoLoad
    /\ specs = <<>>
    /\ widths = <<>>
    /\ sepWidth = 0
    /\ built = <<>>
    /\ clamped = <<>>
    /\ stacks = <<>>
    /\ seps = NoSeps
    /\ painted = NoPaint
    /\ rendered = FALSE

\* The view reloads the tab: h.Load(store, showDeleted).
LoadCmd(showDeleted, fault) ==
    LET l == Load(handler, store, showDeleted, fault)
    IN /\ lastCmd' = [op |-> "load", showDeleted |-> showDeleted, err |-> l.err,
                      items |-> l.items, rows |-> l.rows, meta |-> l.meta,
                      calls |-> l.calls]
       /\ UNCHANGED <<tabs, handler, store, undoStack, layoutVars>>

\* A row builder applied to a list of distinct entities in any order.
RowsCmd(items) ==
    LET b == rowsFor(handler, items)
    IN /\ lastCmd' = [op |-> "rows", showDeleted |-> FALSE, err |-> "",
                      items |-> items, rows |-> b.rows, meta |-> b.meta,
                      calls |-> <<>>]
       /\ UNCHANGED <<tabs, handler, store, undoStack, layoutVars>>

LoadNext ==
    \/ \E showDeleted \in BOOLEAN, fault \in Faults : LoadCmd(showDeleted, fault)
    \/ \E items \in UNION {[1..n -> Items(handler)] : n \in 0..Cardinality(Ids)} :
          /\ \A i, j \in 1..Len(items) : i # j => items[i].ID # items[j].ID
          /\ RowsCmd(items)

LoadSpec == LoadInit /\ [][LoadNext]_vars

-----------------------------------------------------------------------------

(* Layout claims *)

StackEnd(s) == s.offset + s.width

Indexes(s) == {s.entries[i].fullIndex : i \in 1..Len(s.entries)}

HiddenIdx == {i \in 0..(Len(specs) - 1) : specs[i + 1].HideOrder > 0}

VisibleCount == Len(specs) - Cardinality(HiddenIdx)

\* g: the maximal runs of adjacent hidden columns (one per eligible gap).
GapCount == Cardinality({i \in HiddenIdx : i = 0 \/ (i - 1) \notin HiddenIdx})

RECURSIVE EntryCount(_)
EntryCount(ss) == IF ss = <<>> THEN 0 ELSE Len(Head(ss).entries) + EntryCount(Tail(ss))

\* The hidden run (gap) column i lies in: the hidden columns reachable from i
\* through hidden columns only.
RunOf(i) ==
    {j \in HiddenIdx : \A m \in Min(i, j)..Max(i, j) : m \in HiddenIdx}

Contiguous(s) ==
    LET ix == Indexes(s)
    IN \A a, b \in ix : \A m \in a..b : m \in ix

TotalWidth == totalWidthOf(widths, sepWidth)

\* No clamped stack starts before the end of its predecessor: no merge.
NoMergeNeeded ==
    \A i \in 2..Len(clamped) : clamped[i].offset >= StackEnd(clamped[i - 1])

\* C1: after the clamp and merge pass the [offset, offset+width) ranges of
\* any two distinct returned stacks do not overlap.
C1_NoOverlap ==
    rendered =>
        \A a, b \in 1..Len(stacks) :
            a # b => \/ StackEnd(stacks[a]) <= stacks[b].offset
                     \/ StackEnd(stacks[b]) <= stacks[a].offset

\* C1 witness: a render in which a merge happened and two stacks remain.
C1_Witness ==
    /\ rendered
    /\ Len(stacks) >= 2
    /\ Len(stacks) < Len(clamped)

\* C2 (as claimed): exactly g stacks are returned, g the number of gaps that
\* hold a hidden column.
C2_ExactlyG == rendered => Len(stacks) = GapCount

\* C2 (amended): with a visible column, g stacks are built before the merge
\* pass and at most g are returned, exactly g when no merge is needed;
\* 0 <= g <= visible_count + 1; with no visible column nothing is returned.
C2_AtMostG ==
    rendered =>
        /\ GapCount <= VisibleCount + 1
        /\ Len(stacks) <= GapCount
        /\ VisibleCount > 0 => Len(built) = GapCount /\ Len(clamped) = GapCount
        /\ (VisibleCount > 0 /\ NoMergeNeeded) => Len(stacks) = GapCount
        /\ VisibleCount = 0 => Len(stacks) = 0

\* C2 witness: three gaps, all kept apart.
C2_Witness ==
    /\ rendered
    /\ GapCount = 3
    /\ Len(stacks) = 3

\* C3 (as claimed): the entry counts of the returned stacks sum to the number
\* of hidden columns, whatever the number of visible columns.
C3_SumIsK == rendered => EntryCount(stacks) = Cardinality(HiddenIdx)

\* C3 (amended): the entry counts sum to k when at least one column is
\* visible; with every column hidden no stack is returned.
C3_SumIsK_Visible ==
    rendered =>
        /\ VisibleCount > 0 => EntryCount(stacks) = Cardinality(HiddenIdx)
        /\ VisibleCount = 0 => stacks = <<>>

\* C3 witness: several hidden columns, some of them merged into one stack.
C3_Witness ==
    /\ rendered
    /\ VisibleCount > 0
    /\ Cardinality(HiddenIdx) >= 3
    /\ Len(stacks) < Len(clamped)

\* C4: every returned stack lies inside [0, total rendered width].
C4_InBounds ==
    rendered =>
        \A i \in 1..Len(stacks) :
            stacks[i].offset >= 0 /\ StackEnd(stacks[i]) <= TotalWidth

\* C4 witness: a built stack overflowed the total width and a merge happened.
C4_Witness ==
    /\ rendered
    /\ \E i \in 1..Len(built) : StackEnd(built[i]) > TotalWidth
    /\ Len(stacks) < Len(clamped)
    /\ Len(stacks) >= 1

\* The merge steps of the last render: step j folds clamped[j] into the
\* stacks merged from clamped[1..j-1].
MergedBefore(j) == MergeStacks(SubSeq(clamped, 1, j - 1), TotalWidth)

LastBefore(j) == MergedBefore(j)[Len(MergedBefore(j))]

Combines(j) == Len(MergedBefore(j)) > 0 /\ Overlaps(LastBefore(j), clamped[j])

Intersect(a, b) == a.offset < StackEnd(b) /\ b.offset < StackEnd(a)

\* C5 (as claimed): a merge of two intersecting stacks yields the enclosing
\* range (smaller offset, larger end) and the union of the entries.
C5_EnclosingRange ==
    rendered =>
        \A j \in 2..Len(clamped) :
            (Combines(j) /\ Intersect(LastBefore(j), clamped[j])) =>
                LET last == LastBefore(j)
                    s == clamped[j]
                    m == MergeStacks(SubSeq(clamped, 1, j), TotalWidth)
                    r == m[Len(m)]
                IN /\ r.offset = Min(last.offset, s.offset)
                   /\ StackEnd(r) = Max(StackEnd(last), StackEnd(s))
                   /\ Indexes(r) = Indexes(last) \cup Indexes(s)

\* C9 (as claimed): each returned stack is one contiguous run of hidden
\* columns (consecutive full indexes, no visible column in between).
C9_OneRunPerStack ==
    rendered => \A i \in 1..Len(stacks) : Contiguous(stacks[i])

\* C9 (amended): each stack built before the merge pass is exactly one hidden
\* run; a returned stack is a union of whole runs, and exactly one run when
\* no merge happened.
C9_RunsBeforeMerge ==
    rendered =>
        /\ \A i \in 1..Len(built) :
              \E c \in Indexes(built[i]) : Indexes(built[i]) = RunOf(c)
        /\ \A i \in 1..Len(stacks) :
              /\ Indexes(stacks[i]) # {}
              /\ \A c \in Indexes(stacks[i]) : RunOf(c) \subseteq Indexes(stacks[i])
        /\ Len(stacks) = Len(clamped) =>
              \A i \in 1..Len(stacks) :
                  \E c \in Indexes(stacks[i]) : Indexes(stacks[i]) = RunOf(c)

\* C9 witness: a returned stack that holds two runs, next to one that holds
\* a single run of two columns.
C9_Witness ==
    /\ rendered
    /\ \E i \in 1..Len(stacks) : ~Contiguous(stacks[i])
    /\ \E i \in 1..Len(built) : Len(built[i].entries) >= 2

\* C10 (as claimed): within each stack the entries are in descending
\* HideOrder, the most recently hidden column first.
C10_HideOrderDescending ==
    rendered =>
        \A i \in 1..Len(stacks) :
            \A a, b \in 1..Len(stacks[i].entries) :
                a < b => stacks[i].entries[a].hideOrder > stacks[i].entries[b].hideOrder

-----------------------------------------------------------------------------
WentInto(i) == {j \in 1..Len(built) : Indexes(built[j]) \subseteq Indexes(stacks[i])}

\* A hidden run is an edge run when it reaches the first or the last column.
EdgeRun(c) == 0 \in RunOf(c) \/ (Len(specs) - 1) \in RunOf(c)

\* C12: a returned stack is marked edge exactly when at least one of the gap
\* stacks that went into it was a leading or trailing stack; a stack of
\* interior gaps only is never edge and a merge never clears the mark.
C12_EdgeIffEdgeGap ==
    rendered =>
        /\ \A j \in 1..Len(built) :
              built[j].edge <=> \E c \in Indexes(built[j]) : EdgeRun(c)
        /\ \A i \in 1..Len(stacks) :
              /\ WentInto(i) # {}
              /\ stacks[i].edge <=> \E j \in WentInto(i) : built[j].edge

\* C12 witness: an edge stack that absorbed an interior gap, next to a
\* second returned stack.
C12_Witness ==
    /\ rendered
    /\ Len(stacks) >= 2
    /\ \E i \in 1..Len(stacks) :
          stacks[i].edge /\ \E j \in WentInto(i) : ~built[j].edge

\* Exactly the first and the last column are hidden.
FirstAndLastHidden == Len(specs) >= 3 /\ HiddenIdx = {0, Len(specs) - 1}

\* C13 (as claimed): with exactly the first and the last column hidden, two
\* stacks are returned, both edge, for any widths of the visible columns.
C13_TwoEdgeStacks ==
    (rendered /\ FirstAndLastHidden) =>
        /\ Len(stacks) = 2
        /\ \A i \in 1..Len(stacks) : stacks[i].edge

\* C13 (amended): with exactly the first and the last column hidden, a
\* leading and a trailing edge stack are built and no interior one; both are
\* returned when the clamped trailing stack starts at or after the end of the
\* leading one, and otherwise they are merged into one edge stack holding
\* both columns.
C13_TwoEdgeStacksUnlessMerged ==
    (rendered /\ FirstAndLastHidden) =>
        /\ Len(built) = 2
        /\ \A j \in 1..Len(built) : built[j].edge
        /\ Indexes(built[1]) = {0}
        /\ Indexes(built[2]) = {Len(specs) - 1}
        /\ \A i \in 1..Len(stacks) : stacks[i].edge
        /\ IF clamped[2].offset >= StackEnd(clamped[1])
           THEN /\ Len(stacks) = 2
                /\ Indexes(stacks[1]) = {0}
                /\ Indexes(stacks[2]) = {Len(specs) - 1}
           ELSE /\ Len(stacks) = 1
                /\ Indexes(stacks[1]) = {0, Len(specs) - 1}

\* C13 witness: the visible columns are too narrow to keep the leading and
\* the trailing stack apart.
C13_Witness ==
    /\ rendered
    /\ FirstAndLastHidden
    /\ Len(stacks) = 1
    /\ Len(specs) = 5

-----------------------------------------------------------------------------

\* C14: gapSeparators returns one separator per pair of adjacent visible
\* columns (none with at most one visible column); separator i is the
\* collapsed indicator exactly when visToFull[i+1] > visToFull[i] + 1, that
\* is when a hidden column lies between the two, and the plain separator
\* otherwise; with no hidden column every separator is plain.
C14_OneSeparatorPerGap ==
    rendered =>
        LET vis == visToFullOf(specs)
            n == VisibleCount
            plain == normalSepOf(sepWidth)
            between(i) == {h \in HiddenIdx : vis[i] < h /\ h < vis[i + 1]}
        IN /\ Len(seps.collapsedSeps) = IF n <= 1 THEN 0 ELSE n - 1
           /\ Len(seps.plainSeps) = Len(seps.collapsedSeps)
           /\ \A i \in 1..Len(seps.plainSeps) : seps.plainSeps[i] = plain
           /\ \A i \in 1..Len(seps.collapsedSeps) :
                 /\ seps.collapsedSeps[i] \in {collapsedSep, plain}
                 /\ seps.collapsedSeps[i] = collapsedSep <=> vis[i + 1] > vis[i] + 1
                 /\ seps.collapsedSeps[i] = collapsedSep <=> between(i) # {}
           /\ HiddenIdx = {} =>
                 \A i \in 1..Len(seps.collapsedSeps) : seps.collapsedSeps[i] = plain

\* C14 witness: a render with a collapsed and a plain separator.
C14_Witness ==
    /\ rendered
    /\ \E i \in 1..Len(seps.collapsedSeps) : seps.collapsedSeps[i] = collapsedSep
    /\ \E i \in 1..Len(seps.collapsedSeps) : seps.collapsedSeps[i] = normalSepOf(sepWidth)
    /\ Len(seps.collapsedSeps) >= 3

-----------------------------------------------------------------------------

\* C16: from any hide/show state, hiding a visible column and then
\* immediately showing that same column restores visToFull exactly.
C16_HideShowRoundTrip ==
    [][(lastCmd.op = "hide" /\ lastCmd'.op = "show" /\ lastCmd'.col = lastCmd.col)
           => visToFullOf(specs') = lastCmd.visBefore]_vars

\* C16 witness: a column hidden and shown again while two other columns
\* stay hidden.
C16_Witness ==
    /\ lastCmd.op = "show"
    /\ Cardinality(HiddenIdx) = 2
    /\ lastCmd.col \notin HiddenIdx
    /\ Len(lastCmd.visBefore) = Len(visToFullOf(specs)) - 1
    /\ maxHideOrder(specs) = 2

\* C17 (as claimed): a column list with two hidden columns of the same positive
\* HideOrder is reported as a LayoutError: no layout is computed and returned
\* for it.
C17_DuplicateHideOrderRejected ==
    (rendered /\ DuplicateHideOrder(specs)) => stacks = <<>>

-----------------------------------------------------------------------------

\* The columns (0-based) of a line at which a badge starts.
BadgeStarts(line) ==
    {c \in 0..(Len(line) - 1) : line[c + 1].glyph = "pill" /\ line[c + 1].at = 1}

\* The stacks that have an entry at depth d (0-based).
StacksAtDepth(d) == {i \in 1..Len(stacks) : Len(stacks[i].entries) > d}

\* C21: renderCollapsedStacks returns as many lines as the maximum entry
\* count over all stacks (none for an empty list), and the line for depth d
\* holds exactly one badge for each stack with more than d entries.
C21_OneLinePerDepth ==
    rendered =>
        /\ stacks = <<>> => painted.lines = <<>>
        /\ \A i \in 1..Len(stacks) : Len(stacks[i].entries) <= Len(painted.lines)
        /\ painted.lines # <<>> =>
              \E i \in 1..Len(stacks) : Len(stacks[i].entries) = Len(painted.lines)
        /\ \A d \in 0..(Len(painted.lines) - 1) :
              /\ Cardinality(BadgeStarts(painted.lines[d + 1])) =
                     Cardinality(StacksAtDepth(d))
              /\ \A i \in StacksAtDepth(d) :
                    \E c \in BadgeStarts(painted.lines[d + 1]) :
                        painted.lines[d + 1][c + 1].name = stacks[i].entries[d + 1].name

\* C21 witness: three lines; the first holds two badges, the last one.
C21_Witness ==
    /\ rendered
    /\ Len(painted.lines) = 3
    /\ Cardinality(BadgeStarts(painted.lines[1])) = 2
    /\ Cardinality(BadgeStarts(painted.lines[3])) = 1

\* C22: on every rendered stack line each badge starts at its stack's offset
\* column and is the stack's width wide: cell k of the badge of stack i lies at
\* column offset + k - 1, so no badge is pushed right by an earlier one.
C22_BadgeAtOffset ==
    rendered =>
        \A d \in 0..(Len(painted.lines) - 1) :
            \A i \in StacksAtDepth(d) :
                LET line == painted.lines[d + 1]
                    s == stacks[i]
                IN /\ Len(line) >= s.offset + s.width
                   /\ \A k \in 1..s.width :
                         line[s.offset + k] =
                             [glyph |-> "pill",
                              color |-> Palette[(s.entries[d + 1].fullIndex % 5) + 1],
                              name |-> s.entries[d + 1].name, at |-> k]
                   /\ BadgeStarts(line) = {stacks[j].offset : j \in StacksAtDepth(d)}

\* C22 witness: a line with three badges, not all adjacent.
C22_Witness ==
    /\ rendered
    /\ Len(painted.lines) >= 1
    /\ Cardinality(BadgeStarts(painted.lines[1])) = 3
    /\ \E c \in 1..Len(painted.lines[1]) : painted.lines[1][c] = Blank
    /\ \E i \in 1..Len(stacks) : stacks[i].offset > 0

\* The columns (0-based) of the connector line that hold a bar.
Bars == {c \in 0..(Len(painted.connector) - 1) : painted.connector[c + 1] = Bar}

NonEdge == {i \in 1..Len(stacks) : ~stacks[i].edge}

\* C24: renderStackConnector draws exactly one connector glyph per non-edge
\* stack, at column offset + width/2 (integer division), none for edge
\* stacks, and returns the empty string when every stack is an edge stack.
C24_ConnectorPerInteriorStack ==
    rendered =>
        /\ NonEdge = {} => painted.connector = <<>>
        /\ Bars = {stacks[i].offset + (stacks[i].width \div 2) : i \in NonEdge}
        /\ Cardinality(Bars) = Cardinality(NonEdge)
        /\ \A c \in 1..Len(painted.connector) : painted.connector[c] \in {Bar, Blank}
        /\ painted.connector # <<>> => painted.connector[Len(painted.connector)] = Bar

\* C24 witness: an interior stack between two edge stacks.
C24_Witness ==
    /\ rendered
    /\ Cardinality(NonEdge) = 1
    /\ Len(stacks) = 3
    /\ Cardinality(Bars) = 1

\* The returned stack that holds full index c.
StackOf(c) == CHOOSE i \in 1..Len(stacks) : c \in Indexes(stacks[i])

HasLeading == VisibleCount > 0 /\ 0 \in HiddenIdx

HasTrailing == VisibleCount > 0 /\ (Len(specs) - 1) \in HiddenIdx

\* C25: renderLadleBottom returns the empty string without a leading or
\* trailing stack; with both, one curve over the full line width (leftWidth +
\* colSpaceWidth + 2 cells, corner to corner); with the leading one only, a
\* left corner and leading width + 1 dashes; with the trailing one only,
\* dashes from the trailing stack's offset to the right corner.
C25_LadleBottom ==
    rendered =>
        /\ (~HasLeading /\ ~HasTrailing) => painted.ladle = <<>>
        /\ (HasLeading /\ HasTrailing) =>
              /\ Len(painted.ladle) = 2 + TotalWidth + 2
              /\ painted.ladle[1] = CornerLeft
              /\ painted.ladle[Len(painted.ladle)] = CornerRight
              /\ \A c \in 2..(Len(painted.ladle) - 1) : painted.ladle[c] = Dash
        /\ (HasLeading /\ ~HasTrailing) =>
              /\ Len(painted.ladle) = 1 + stacks[StackOf(0)].width + 1
              /\ painted.ladle[1] = CornerLeft
              /\ \A c \in 2..Len(painted.ladle) : painted.ladle[c] = Dash
        /\ (~HasLeading /\ HasTrailing) =>
              LET off == stacks[StackOf(Len(specs) - 1)].offset
              IN /\ Len(painted.ladle) = TotalWidth + 2
                 /\ \A c \in 1..off : painted.ladle[c] = Blank
                 /\ \A c \in (off + 1)..(TotalWidth + 1) : painted.ladle[c] = Dash
                 /\ painted.ladle[TotalWidth + 2] = CornerRight

\* C25 witness: a trailing stack only, starting right of column 0, next to
\* an interior stack.
C25_Witness ==
    /\ rendered
    /\ ~HasLeading
    /\ HasTrailing
    /\ stacks[StackOf(Len(specs) - 1)].offset > 0
    /\ Len(stacks) >= 2
    /\ painted.ladle # <<>>

-----------------------------------------------------------------------------

\* The full index of the column with the given title.
IndexOfTitle(name) == CHOOSE c \in 0..(Len(specs) - 1) : specs[c + 1].Title = name

\* The badge cells painted for the column with full index c.
BadgeCellsOf(c) ==
    {<<d, k>> \in (1..Len(painted.lines)) \X (1..(TotalWidth + 1)) :
        /\ k <= Len(painted.lines[d])
        /\ painted.lines[d][k].glyph = "pill"
        /\ painted.lines[d][k].name = specs[c + 1].Title}

\* C23: the badge color of a hidden column is palette[FullIndex mod 5] and
\* nothing else: after any sequence of hide/show toggles every hidden column
\* is painted in that color, whatever its HideOrder, its stack and merging.
C23_ColorByFullIndex ==
    (rendered /\ VisibleCount > 0) =>
        \A c \in HiddenIdx :
            /\ BadgeCellsOf(c) # {}
            /\ \A p \in BadgeCellsOf(c) :
                  painted.lines[p[1]][p[2]].color =
                      <<"accent", "secondary", "warning", "success", "textMid">>[(c % 5) + 1]

\* C23 witness: the sixth column, hidden again after a show (hide order 3
\* with two columns hidden), painted in a merged stack.
C23_Witness ==
    /\ rendered
    /\ Len(specs) = NCols + 1
    /\ NCols \in HiddenIdx
    /\ Cardinality(HiddenIdx) = 2
    /\ specs[NCols + 1].HideOrder = 3
    /\ Len(stacks) < Len(clamped)
    /\ BadgeCellsOf(NCols) # {}

-----------------------------------------------------------------------------

\* The visible columns left of the column with full index c.
VisibleLeftOf(c) == Cardinality({v \in 0..(c - 1) : v \notin HiddenIdx})

\* The widest title among the hidden columns of a set.
WidestTitle(cols) ==
    CHOOSE w \in 0..64 :
        /\ \E c \in cols : Len(specs[c + 1].Title) = w
        /\ \A c \in cols : Len(specs[c + 1].Title) <= w

\* The midpoint of the gap after the first n visible columns: their
\* rendered widths, the separators between them, and half a separator.
GapMidpoint(n) ==
    sumInts(SubSeq(widths, 1, n)) + (n - 1) * sepWidth + (sepWidth \div 2)

\* C27: every interior stack, as built before the clamp and the merge, is
\* as wide as the widest hidden title of its run plus 2, and starts at
\* max(0, m - width/2) with m the midpoint of its gap.
C27_InteriorStackGeometry ==
    rendered =>
        \A j \in 1..Len(built) :
            ~built[j].edge =>
                LET run == Indexes(built[j])
                    lo == CHOOSE c \in run : \A d \in run : c <= d
                    n == VisibleLeftOf(lo)
                    w == WidestTitle(run) + 2
                IN /\ run = RunOf(lo)
                   /\ n >= 1
                   /\ built[j].width = w
                   /\ built[j].offset = Max(0, GapMidpoint(n) - (w \div 2))

\* C27 witness: an interior run of two titles of different lengths, the
\* first of them the shorter, whose stack starts right of column 0.
C27_Witness ==
    /\ rendered
    /\ \E j \in 1..Len(built) :
          /\ ~built[j].edge
          /\ Len(built[j].entries) = 2
          /\ Len(built[j].entries[1].name) < Len(built[j].entries[2].name)
          /\ built[j].offset > 0

-----------------------------------------------------------------------------

\* The entries of the returned stacks, by position.
EntryPositions ==
    {<<i, k>> \in (1..Len(stacks)) \X (1..Len(specs)) : k <= Len(stacks[i].entries)}

\* C29: with at least one visible column, every hidden column is an entry
\* of exactly one returned stack, once, with its own title, full index and
\* hide order; no visible column is an entry; no returned stack is empty.
C29_HiddenColumnsPartitioned ==
    (rendered /\ VisibleCount > 0) =>
        /\ \A c \in HiddenIdx :
              LET at == {p \in EntryPositions : stacks[p[1]].entries[p[2]].fullIndex = c}
              IN /\ Cardinality(at) = 1
                 /\ \A p \in at :
                       stacks[p[1]].entries[p[2]] =
                           [name |-> specs[c + 1].Title, fullIndex |-> c,
                            hideOrder |-> specs[c + 1].HideOrder]
        /\ \A p \in EntryPositions : stacks[p[1]].entries[p[2]].fullIndex \in HiddenIdx
        /\ \A i \in 1..Len(stacks) : Len(stacks[i].entries) >= 1

\* C29 witness: three hidden columns in a leading, an interior and a
\* trailing run, returned in fewer stacks than were built.
C29_Witness ==
    /\ rendered
    /\ VisibleCount > 0
    /\ Cardinality(HiddenIdx) = 3
    /\ Len(built) = 3
    /\ Len(stacks) < Len(built)

(* Handler and undo claims *)

\* C6: for every handler, when a delete command's Snapshot found the entity
\* and its Delete succeeded, and the next command is an undo whose Restore
\* succeeds, the entity's field values equal those it had at the Snapshot.
C6_RestoreReproducesFields ==
    [][(/\ DeletedWithSnapshot(lastCmd)
        /\ lastCmd'.op = "undo"
        /\ lastCmd'.err = "")
       => /\ lastCmd'.id = lastCmd.id
          /\ store'[lastCmd.id].row = lastCmd.before]_vars

\* C6 witness: an undo that succeeded right after a snapshot and delete of
\* the same entity, which is still soft-deleted.
C6_Witness ==
    /\ lastCmd.op = "undo"
    /\ lastCmd.err = ""
    /\ lastCmd.afterDelete
    /\ store[lastCmd.id].deleted
    /\ store[lastCmd.id].row = lastCmd.snap.Restore.arg

\* C7: an undo whose Restore fails leaves the undo stack exactly as it was;
\* an undo whose Restore succeeds removes exactly the top entry.
C7_FailedUndoKeepsStack ==
    [][/\ (lastCmd'.op = "undo" /\ lastCmd'.err # "") => undoStack' = undoStack
       /\ (lastCmd'.op = "undo" /\ lastCmd'.err = "") =>
              /\ Len(undoStack) > 0
              /\ undoStack' = Pop(undoStack)
              /\ lastCmd'.snap = Top(undoStack)]_vars

\* C7 witness: a failed undo with two entries on the stack, the entry whose
\* Restore failed on top.
C7_Witness ==
    /\ lastCmd.op = "undo"
    /\ lastCmd.err # ""
    /\ Len(undoStack) = 2
    /\ Top(undoStack) = lastCmd.snap
    /\ undoStack[1] # undoStack[2]

\* C8: a Snapshot of an id that does not resolve (no row, or soft-deleted)
\* returns found = false with the zero entry, pushes nothing, and its only
\* store call is the read.
C8_SnapshotNotFound ==
    [][(lastCmd'.op \in {"delete", "edit"} /\ ~Resolves(store, lastCmd'.id))
       => /\ ~lastCmd'.found
          /\ lastCmd'.snap = EmptyEntry(handler)
          /\ lastCmd'.snap.Restore.fn = "nil"
          /\ lastCmd'.calls[1] = Call(handler, "Get", lastCmd'.id)
          /\ undoStack' = undoStack
          /\ store' = store]_vars

\* C8 witness: a delete command on an entity that was already soft-deleted:
\* the snapshot reported found = false.
C8_Witness ==
    /\ lastCmd.op = "delete"
    /\ lastCmd.id \in Ids
    /\ ~lastCmd.found
    /\ lastCmd.err = "notfound"
    /\ store[lastCmd.id].deleted
    /\ Len(undoStack) > 0

\* The tabs that own a handler of the given kind.
OwnersOf(kind) ==
    {i \in 1..Len(tabs) :
        tabs[i].Handler # NilHandler /\ FormKind(tabs[i].Handler) = kind}

\* C28: handlerForFormKind(kind) returns the handler of the first tab, in tab
\* order, that owns a handler whose FormKind() is kind, and nil when no tab
\* does (formHouse and unknown kinds among them); never a handler of another
\* kind.
C28_HandlerOfThatKindOrNil ==
    lastCmd.op = "resolve" =>
        /\ OwnersOf(lastCmd.kind) # {} =>
              /\ lastCmd.result =
                    tabs[CHOOSE i \in OwnersOf(lastCmd.kind) :
                            \A j \in OwnersOf(lastCmd.kind) : i <= j].Handler
              /\ FormKind(lastCmd.result) = lastCmd.kind
        /\ OwnersOf(lastCmd.kind) = {} => lastCmd.result = NilHandler
        /\ lastCmd.kind \in {"formNone", "formHouse", "formUnknown"} =>
              lastCmd.result = NilHandler

\* C28 witness: the owner is the third tab, behind a tab without a handler
\* and a tab of another kind; and a second owner follows it.
C28_Witness ==
    /\ lastCmd.op = "resolve"
    /\ Len(tabs) = 4
    /\ tabs[1].Handler = NilHandler
    /\ tabs[2].Handler \notin {NilHandler, lastCmd.result}
    /\ OwnersOf(lastCmd.kind) = {3, 4}
    /\ lastCmd.result = tabs[3].Handler

\* C30: a Snapshot(id) that found its entity returns an entry whose FormKind is
\* the handler's FormKind() and whose EntityID is id; the four FormKinds are
\* pairwise distinct, so looking the entry's FormKind up leads back to the
\* handler that took the snapshot.
C30_SnapshotRoundTripsToHandler ==
    /\ \A h1, h2 \in Handlers : h1 # h2 => FormKind(h1) # FormKind(h2)
    /\ (lastCmd.op \in {"snapshot", "undo"} /\ lastCmd.found) =>
          /\ lastCmd.snap.FormKind = FormKind(handler)
          /\ lastCmd.snap.EntityID = lastCmd.id
    /\ lastCmd.op = "undo" => lastCmd.result = handler

\* C30 witness: a snapshot of entity 2 taken by the handler of the last of
\* four tabs with four different handlers, then looked up for undo.
C30_Witness ==
    /\ lastCmd.op = "undo"
    /\ lastCmd.id = 2
    /\ Len(tabs) = 4
    /\ {tabs[i].Handler : i \in 1..4} = Handlers
    /\ tabs[4].Handler = handler
    /\ lastCmd.result = handler

-----------------------------------------------------------------------------

\* The mutating store calls among the calls of a command, in order.
Mutations(calls) == SelectSeq(calls, LAMBDA c : c.fn \in MutatingCalls)

\* C18: for every handler, one Delete(id) or Restore(id) issues exactly one
\* persistence mutation, for that id and the handler's entity type, and
\* returns the store's error unchanged; nothing is retried after an error.
C18_OneMutationPerCall ==
    [][/\ lastCmd'.op = "delete" =>
             /\ Mutations(lastCmd'.calls) =
                    <<[fn |-> "Delete", entity |-> EntityOf(FormKind(handler)),
                       id |-> lastCmd'.id]>>
             /\ \E fault \in Faults :
                    /\ lastCmd'.err = StoreDelete(store, lastCmd'.id, fault).err
                    /\ store' = StoreDelete(store, lastCmd'.id, fault).st
       /\ lastCmd'.op = "restore" =>
             /\ lastCmd'.calls =
                    <<[fn |-> "Restore", entity |-> EntityOf(FormKind(handler)),
                       id |-> lastCmd'.id]>>
             /\ \E fault \in Faults :
                    /\ lastCmd'.err = StoreRestore(store, lastCmd'.id, fault).err
                    /\ store' = StoreRestore(store, lastCmd'.id, fault).st
      ]_vars

\* C18 witness: a Delete whose store call failed: the error came back and the
\* row is still live; earlier, a delete had succeeded.
C18_Witness ==
    /\ lastCmd.op = "delete"
    /\ lastCmd.err = "io"
    /\ lastCmd.afterDelete
    /\ lastCmd.id \in DOMAIN store
    /\ ~store[lastCmd.id].deleted
    /\ Len(Mutations(lastCmd.calls)) = 1

\* The IDs of a meta list, in order.
MetaIDs(meta) == [i \in 1..Len(meta) |-> meta[i].ID]

C20_RowsAndMetaAligned ==
    (lastCmd.op \in {"rows", "load"} /\ lastCmd.err = "" /\ handler \in TableBuilders) =>
        /\ Len(lastCmd.rows) = Len(lastCmd.items)
        /\ Len(lastCmd.meta) = Len(lastCmd.items)
        /\ \A i \in 1..Len(lastCmd.items) :
              LET item == lastCmd.items[i]
                  plain == "<Readonly>" \o ToString(item.ID) \o "</Readonly>"
              IN /\ lastCmd.meta[i].ID = item.ID
                 /\ lastCmd.meta[i].Deleted = item.DeletedAt.Valid
                 /\ lastCmd.rows[i][1] =
                        IF item.DeletedAt.Valid
                        THEN "<Deleted>" \o plain \o "</Deleted>" ELSE plain

\* C20 witness: a builder handed a soft-deleted entity with the higher ID
\* first and a live one second.
C20_Witness ==
    /\ lastCmd.op = "rows"
    /\ handler \in TableBuilders
    /\ Len(lastCmd.items) = 2
    /\ lastCmd.items[1].ID > lastCmd.items[2].ID
    /\ lastCmd.meta[1].Deleted
    /\ ~lastCmd.meta[2].Deleted

====
